---- MODULE Spec2Model ----
(***************************************************************************)
(* Model of jupyblog's markdown module (src/src/jupyblog/md.py).           *)
(*                                                                         *)
(* Texts are sequences of one-character strings, so that str.splitlines,   *)
(* str.split, str.join and str.replace are computed character by          *)
(* character as Python computes them.  YAML mappings are abstracted to the *)
(* set of their keys: in a front-matter block the one-character line "t"   *)
(* stands for "title: ...", "d" for "description: ...".                    *)
(***************************************************************************)
EXTENDS Integers, Sequences, FiniteSets, TLC

VARIABLES
    orig,      \* the text the caller started with
    md,        \* the current text
    src,       \* the text the last operation was applied to
    op,        \* name of the last operation ("init" before any)
    arg,       \* arguments of the last operation
    out,       \* outcome of the last operation
    n,         \* number of operations applied so far
    rs         \* state of one MarkdownRenderer.render call

vars == <<orig, md, src, op, arg, out, n, rs>>

(***************************************************************************)
(* Bounds                                                                  *)
(***************************************************************************)
MaxUnits == 3        \* chunks per front-matter document
MaxOps == 2          \* operations chained on one document
MaxSpanUnits == 3    \* chunks per line-span document
MaxFooterUnits == 3  \* chunks per text handed to add_footer
MaxParts == 2        \* parts of the body of a rendered document

(***************************************************************************)
(* Characters and text helpers                                             *)
(***************************************************************************)
NL == "\n"
CR == "\r"
Marker == <<"-", "-", "-">>
\* The backquote of a code fence is written "#".
Fence == <<"#", "#", "#">>

RECURSIVE Concat(_)
Concat(ss) == IF ss = <<>> THEN <<>> ELSE Head(ss) \o Concat(Tail(ss))

\* All sequences over S of length at most k.
SeqsUpTo(S, k) == UNION {[1..m -> S] : m \in 0..k}

\* s[from..] (1-indexed, empty when from is past the end).
Drop(s, k) == SubSeq(s, k + 1, Len(s))

StartsWith(s, p) == Len(p) <= Len(s) /\ SubSeq(s, 1, Len(p)) = p

EndsWith(s, p) == Len(p) <= Len(s) /\ SubSeq(s, Len(s) - Len(p) + 1, Len(s)) = p

OccursAt(s, p, i) == i >= 1 /\ i + Len(p) - 1 <= Len(s) /\ SubSeq(s, i, i + Len(p) - 1) = p

Contains(s, p) == \E i \in 1..(Len(s) + 1) : OccursAt(s, p, i)

\* str.splitlines(): breaks at \n, \r and \r\n; no empty last line.
RECURSIVE SplitLinesR(_, _, _, _)
SplitLinesR(s, i, cur, acc) ==
    IF i > Len(s) THEN (IF cur = <<>> THEN acc ELSE Append(acc, cur))
    ELSE IF s[i] = NL THEN SplitLinesR(s, i + 1, <<>>, Append(acc, cur))
    ELSE IF s[i] = CR THEN
        (IF i < Len(s) /\ s[i + 1] = NL
         THEN SplitLinesR(s, i + 2, <<>>, Append(acc, cur))
         ELSE SplitLinesR(s, i + 1, <<>>, Append(acc, cur)))
    ELSE SplitLinesR(s, i + 1, Append(cur, s[i]), acc)

SplitLines(s) == SplitLinesR(s, 1, <<>>, <<>>)

\* str.split on the newline: breaks at \n only; always at least one piece.
RECURSIVE SplitNLR(_, _, _, _)
SplitNLR(s, i, cur, acc) ==
    IF i > Len(s) THEN Append(acc, cur)
    ELSE IF s[i] = NL THEN SplitNLR(s, i + 1, <<>>, Append(acc, cur))
    ELSE SplitNLR(s, i + 1, Append(cur, s[i]), acc)

SplitNL(s) == SplitNLR(s, 1, <<>>, <<>>)

\* str.join of the lines with the newline
RECURSIVE Join(_)
Join(lines) ==
    IF lines = <<>> THEN <<>>
    ELSE IF Len(lines) = 1 THEN lines[1]
    ELSE lines[1] \o <<NL>> \o Join(Tail(lines))

SetMin(S) == CHOOSE x \in S : \A y \in S : x <= y

\* lines[k:] for k >= 0
LinesFrom(lines, k) == SubSeq(lines, k + 1, Len(lines))

(***************************************************************************)
(* YAML, abstracted to keys                                                *)
(***************************************************************************)
KeyOrder == <<"authors", "date", "description", "images", "title", "toc">>

KeyChar(k) ==
    CASE k = "authors" -> "A"
      [] k = "date" -> "D"
      [] k = "description" -> "d"
      [] k = "images" -> "I"
      [] k = "title" -> "t"
      [] k = "toc" -> "T"

AllKeys == {KeyOrder[i] : i \in 1..Len(KeyOrder)}

IsKeyLine(line) == Len(line) = 1 /\ \E k \in AllKeys : line[1] = KeyChar(k)

\* yaml.safe_load(text) or {}: a leading --- line starts the YAML document, a
\* key line adds its key, a blank line is skipped, anything else is an error.
YamlLoad(text) ==
    LET ls == SplitLines(text)
        body == IF ls # <<>> /\ ls[1] = Marker THEN Tail(ls) ELSE ls
        bad == \E i \in 1..Len(body) : body[i] # <<>> /\ ~IsKeyLine(body[i])
    IN  IF bad THEN [status |-> "YAMLError", keys |-> {}]
        ELSE [status |-> "ok",
              keys |-> {k \in AllKeys : \E i \in 1..Len(body) : body[i] = <<KeyChar(k)>>}]

\* yaml.dump(mapping): one line per key, keys sorted; {} and a newline when empty.
RECURSIVE YamlDumpR(_, _)
YamlDumpR(keys, i) ==
    IF i > Len(KeyOrder) THEN <<>>
    ELSE (IF KeyOrder[i] \in keys THEN <<KeyChar(KeyOrder[i]), NL>> ELSE <<>>)
         \o YamlDumpR(keys, i + 1)

YamlDump(keys) == IF keys = {} THEN <<"{", "}", NL>> ELSE YamlDumpR(keys, 1)

(***************************************************************************)
(* Outcomes                                                                *)
(***************************************************************************)
NoIdx == <<>>

Outcome(status, text, idx, keys) ==
    [status |-> status, text |-> text, idx |-> idx, keys |-> keys, found |-> {}]

Failure(status) == Outcome(status, <<>>, NoIdx, {})

NoOutcome == Outcome("none", <<>>, NoIdx, {})

(***************************************************************************)
(* Front-matter codec                                                      *)
(***************************************************************************)
\* The scan without its stop at the second marker.
RECURSIVE ScanMarkersAll(_, _, _)
ScanMarkersAll(lines, i, idx) ==
    IF i > Len(lines) THEN idx
    ELSE ScanMarkersAll(lines, i + 1,
                        IF lines[i] = Marker THEN Append(idx, i - 1) ELSE idx)

\* The loop of find_metadata_lines: 0-indexed positions of the first two
\* lines equal to the marker.
RECURSIVE ScanMarkers(_, _, _)
ScanMarkers(lines, i, idx) ==
    IF i > Len(lines) \/ Len(idx) = 2 THEN idx
    ELSE ScanMarkers(lines, i + 1,
                     IF lines[i] = Marker THEN Append(idx, i - 1) ELSE idx)

\* find_metadata_lines without its check that the first marker is line 0.
find_metadata_lines_anywhere(text) ==
    LET idx == ScanMarkers(SplitLines(text), 1, <<>>)
    IN  IF idx = <<>> THEN Failure("ValueError")
        ELSE IF Len(idx) < 2
             THEN Failure("InvalidFrontMatter")
        ELSE Outcome("ok", <<>>, idx, {})

find_metadata_lines(text) ==
    LET idx == ScanMarkers(SplitLines(text), 1, <<>>)
    IN  IF idx = <<>> THEN Outcome("ValueError", <<>>, NoIdx, {})
        ELSE IF idx[1] # 0 THEN Outcome("InvalidFrontMatter", <<>>, NoIdx, {})
        ELSE IF Len(idx) < 2 THEN Outcome("InvalidFrontMatter", <<>>, NoIdx, {})
        ELSE Outcome("ok", <<>>, idx, {})

validate_metadata(keys) == "title" \in keys /\ "description" \in keys

parse_metadata(text, validate) ==
    LET loc == find_metadata_lines(text)
    IN  IF loc.status # "ok" THEN loc
        ELSE LET lines == SplitLines(text)
                 y == YamlLoad(Join(SubSeq(lines, loc.idx[1] + 1, loc.idx[2])))
             IN  IF y.status # "ok" THEN Outcome("YAMLError", <<>>, NoIdx, {})
                 ELSE IF validate /\ ~validate_metadata(y.keys)
                      THEN Outcome("ValueError", <<>>, NoIdx, {})
                 ELSE Outcome("ok", <<>>, NoIdx, y.keys)

delete_metadata(text) ==
    LET loc == find_metadata_lines(text)
    IN  IF loc.status # "ok" THEN Outcome("ok", text, NoIdx, {})
        ELSE Outcome("ok", Join(LinesFrom(SplitLines(text), loc.idx[2] + 1)), NoIdx, {})

\* replace_metadata keeping the closing marker line: lines[idx[1]:].
replace_metadata_keep_marker(text, new_metadata) ==
    LET lines == SplitLines(text)
        idx == ScanMarkers(lines, 1, <<>>)
    IN  IF idx = <<>> THEN Failure("ValueError")
        ELSE IF idx[1] # 0 \/ Len(idx) < 2
             THEN Failure("InvalidFrontMatter")
        ELSE Outcome("ok",
                     Marker \o <<NL>> \o YamlDump(new_metadata) \o Marker \o <<NL>>
                         \o Join(SubSeq(lines, idx[2] + 1, Len(lines))),
                     NoIdx, new_metadata)

new_metadata_text(keys) == Marker \o <<NL>> \o YamlDump(keys) \o Marker \o <<NL>>

replace_metadata(text, new_metadata) ==
    LET lines == SplitLines(text)
        loc == find_metadata_lines(text)
    IN  IF loc.status # "ok" THEN loc
        ELSE Outcome("ok",
                     new_metadata_text(new_metadata)
                         \o Join(LinesFrom(lines, loc.idx[2] + 1)),
                     NoIdx, new_metadata)

(***************************************************************************)
(* Documents handed to the codec                                           *)
(***************************************************************************)
FrontMatterBlock == Marker \o <<NL, "t", NL, "d", NL>> \o Marker

Chunks == {<<>>, <<"x">>, <<"t">>, Marker, FrontMatterBlock}

Terminators == {<<>>, <<NL>>, <<CR>>}

Units == {c \o t : c \in Chunks, t \in Terminators}

Docs == {Concat(us) : us \in SeqsUpTo(Units, MaxUnits)}

NoArg == [s |-> 0, e |-> 0, marks |-> <<>>, to_find |-> {}, validate |-> FALSE,
          roundtrip |-> FALSE, keys |-> {}, template |-> <<>>, include |-> FALSE]

NoRender == [pc |-> "off"]

InitCodec ==
    /\ md \in Docs
    /\ orig = md
    /\ src = <<>>
    /\ op = "init"
    /\ arg = NoArg
    /\ out = NoOutcome
    /\ n = 0
    /\ rs = NoRender

FindMetadataLines ==
    /\ op = "init"
    /\ op' = "find_metadata_lines"
    /\ out' = find_metadata_lines(md)
    /\ src' = md
    /\ n' = n + 1
    /\ UNCHANGED <<orig, md, arg, rs>>

ParseMetadata ==
    /\ op = "init"
    /\ \E v \in BOOLEAN :
        /\ arg' = [arg EXCEPT !.validate = v]
        /\ out' = parse_metadata(md, v)
    /\ op' = "parse_metadata"
    /\ src' = md
    /\ n' = n + 1
    /\ UNCHANGED <<orig, md, rs>>

\* delete_metadata applied to the current text; the result becomes the
\* current text, so that a second application deletes from a stripped text.
DeleteMetadata ==
    /\ op \in {"init", "delete_metadata"}
    /\ n < MaxOps
    /\ op' = "delete_metadata"
    /\ out' = delete_metadata(md)
    /\ src' = md
    /\ md' = delete_metadata(md).text
    /\ n' = n + 1
    /\ UNCHANGED <<orig, arg, rs>>

\* replace_metadata, either with the mapping parse_metadata(md) has just
\* returned (the round trip) or with a mapping of the caller's.
ReplaceMetadata ==
    /\ \/ /\ op = "parse_metadata"
          /\ arg.validate
          /\ out.status = "ok"
          /\ arg' = [arg EXCEPT !.roundtrip = TRUE, !.keys = out.keys]
          /\ out' = replace_metadata(md, out.keys)
       \/ /\ op = "init"
          /\ \E keys \in SUBSET {"title", "description"} :
                /\ out' = replace_metadata(md, keys)
                /\ arg' = [arg EXCEPT !.keys = keys]
    /\ op' = "replace_metadata"
    /\ src' = md
    /\ md' = IF out'.status = "ok" THEN out'.text ELSE md
    /\ n' = n + 1
    /\ UNCHANGED <<orig, rs>>

NextCodec == FindMetadataLines \/ ParseMetadata \/ DeleteMetadata \/ ReplaceMetadata

SpecCodec == InitCodec /\ [][NextCodec]_vars

(***************************************************************************)
(* Line-span editor                                                        *)
(***************************************************************************)
\* A Python slice bound i on a list of length len: negative bounds count
\* from the end, and bounds are clamped to 0..len.
PyBound(i, len) ==
    IF i < 0 THEN (IF i + len < 0 THEN 0 ELSE i + len)
    ELSE IF i > len THEN len ELSE i

\* lines[lo:hi]
PySlice(lines, lo, hi) ==
    SubSeq(lines, PyBound(lo, Len(lines)) + 1, PyBound(hi, Len(lines)))

\* The loop of find_lines: found is the mapping line -> number, as pairs.
RECURSIVE FindLinesR(_, _, _, _)
FindLinesR(lines, i, to_find, found) ==
    IF i > Len(lines) THEN found
    ELSE LET hit == lines[i] \in to_find
             found2 == IF hit THEN found \cup {<<lines[i], i>>} ELSE found
             to_find2 == IF hit THEN to_find \ {lines[i]} ELSE to_find
         IN  IF to_find2 = {} THEN found2
             ELSE FindLinesR(lines, i + 1, to_find2, found2)

find_lines(text, to_find) == FindLinesR(SplitLines(text), 1, to_find, {})

HasKey(found, key) == \E p \in found : p[1] = key

Lookup(found, key) == (CHOOSE p \in found : p[1] = key)[2]

\* delete_between_line_no with lines[:start] for lines[:start - 1].
delete_between_line_no_keep_start(text, start, end) ==
    IF end < start THEN Failure("ValueError")
    ELSE LET lines == SplitLines(text)
         IN  Outcome("ok",
                     Join(PySlice(lines, 0, start) \o PySlice(lines, end, Len(lines))),
                     NoIdx, {})

delete_between_line_no(text, start, end) ==
    IF end < start THEN Failure("ValueError")
    ELSE LET lines == SplitLines(text)
         IN  Outcome("ok",
                     Join(PySlice(lines, 0, start - 1) \o PySlice(lines, end, Len(lines))),
                     NoIdx, {})

delete_between_line_content(text, to_delete) ==
    IF Len(to_delete) # 2 THEN Failure("ValueError")
    ELSE LET location == find_lines(text, {to_delete[1], to_delete[2]})
         IN  IF ~HasKey(location, to_delete[1]) \/ ~HasKey(location, to_delete[2])
             THEN Failure("KeyError")
             ELSE delete_between_line_no(text, Lookup(location, to_delete[1]),
                                         Lookup(location, to_delete[2]))

\* extract_between_line_content with lines[start - 1:end], markers included.
extract_between_line_content_with_marks(text, marks) ==
    IF Len(marks) # 2 THEN Failure("ValueError")
    ELSE LET location == find_lines(text, {marks[1], marks[2]})
         IN  IF ~HasKey(location, marks[1]) \/ ~HasKey(location, marks[2])
             THEN Failure("KeyError")
             ELSE Outcome("ok",
                          Join(PySlice(SplitLines(text), Lookup(location, marks[1]) - 1,
                                       Lookup(location, marks[2]))),
                          NoIdx, {})

extract_between_line_content(text, marks) ==
    IF Len(marks) # 2 THEN Failure("ValueError")
    ELSE LET location == find_lines(text, {marks[1], marks[2]})
         IN  IF ~HasKey(location, marks[1]) \/ ~HasKey(location, marks[2])
             THEN Failure("KeyError")
             ELSE LET start == Lookup(location, marks[1])
                      end == Lookup(location, marks[2])
                  IN  Outcome("ok", Join(PySlice(SplitLines(text), start, end - 1)),
                              NoIdx, {})

(***************************************************************************)
(* Documents handed to the line-span editor                                *)
(***************************************************************************)
SpanChunks == {<<>>, <<"a">>, <<"b">>, <<"x", NL, "y">>}

SpanTerminators == {<<>>, <<NL>>}

SpanUnits == {c \o t : c \in SpanChunks, t \in SpanTerminators}

SpanDocs == {Concat(us) : us \in SeqsUpTo(SpanUnits, MaxSpanUnits)}

MarkSet == {<<"a">>, <<"b">>, <<"x">>}

MarkTuples == {<<p, q>> : p \in MarkSet, q \in MarkSet} \cup {<<p>> : p \in MarkSet}

InitLines ==
    /\ md \in SpanDocs
    /\ orig = md
    /\ src = <<>>
    /\ op = "init"
    /\ arg = NoArg
    /\ out = NoOutcome
    /\ n = 0
    /\ rs = NoRender

FindLines ==
    /\ op = "init"
    /\ \E to_find \in SUBSET MarkSet :
        /\ arg' = [arg EXCEPT !.to_find = to_find]
        /\ out' = [Outcome("ok", <<>>, NoIdx, {}) EXCEPT !.found = find_lines(md, to_find)]
    /\ op' = "find_lines"
    /\ src' = md
    /\ n' = n + 1
    /\ UNCHANGED <<orig, md, rs>>

DeleteBetweenLineNo ==
    /\ op = "init"
    /\ \E s \in 0..(Len(SplitLines(md)) + 1), e \in 0..(Len(SplitLines(md)) + 1) :
        /\ arg' = [arg EXCEPT !.s = s, !.e = e]
        /\ out' = delete_between_line_no(md, s, e)
    /\ op' = "delete_between_line_no"
    /\ src' = md
    /\ md' = IF out'.status = "ok" THEN out'.text ELSE md
    /\ n' = n + 1
    /\ UNCHANGED <<orig, rs>>

DeleteBetweenLineContent ==
    /\ op = "init"
    /\ \E marks \in MarkTuples :
        /\ arg' = [arg EXCEPT !.marks = marks]
        /\ out' = delete_between_line_content(md, marks)
    /\ op' = "delete_between_line_content"
    /\ src' = md
    /\ md' = IF out'.status = "ok" THEN out'.text ELSE md
    /\ n' = n + 1
    /\ UNCHANGED <<orig, rs>>

ExtractBetweenLineContent ==
    /\ op = "init"
    /\ \E marks \in MarkTuples :
        /\ arg' = [arg EXCEPT !.marks = marks]
        /\ out' = extract_between_line_content(md, marks)
    /\ op' = "extract_between_line_content"
    /\ src' = md
    /\ n' = n + 1
    /\ UNCHANGED <<orig, md, rs>>

NextLines ==
    \/ FindLines
    \/ DeleteBetweenLineNo
    \/ DeleteBetweenLineContent
    \/ ExtractBetweenLineContent

SpecLines == InitLines /\ [][NextLines]_vars

(***************************************************************************)
(* Properties of the line-span editor                                      *)
(***************************************************************************)
\* 1-indexed numbers of the lines of text equal to line.
LinePos(text, line) ==
    LET lines == SplitLines(text) IN {i \in 1..Len(lines) : lines[i] = line}

\* C8: delete_between_line_no fails with ValueError and returns no document
\* whenever e < s; for 1 <= s <= e <= N it returns lines 1..s-1 followed by
\* lines e+1..N of the N lines, unchanged and in order.
C8DeleteBetween ==
    op = "delete_between_line_no" =>
        LET lines == SplitLines(src)
            N == Len(lines)
            gap == arg.e - arg.s + 1
        IN  /\ arg.e < arg.s => (out.status = "ValueError" /\ out.text = <<>> /\ md = src)
            /\ (1 <= arg.s /\ arg.s <= arg.e /\ arg.e <= N) =>
                 /\ out.status = "ok"
                 /\ out.text = Join([i \in 1..(N - gap) |->
                                       IF i < arg.s THEN lines[i] ELSE lines[i + gap]])

C8Witness ==
    /\ op = "delete_between_line_no"
    /\ 1 < arg.s
    /\ arg.s < arg.e
    /\ arg.e < Len(SplitLines(src))
    /\ out.status = "ok"
    /\ out.text # <<>>

ExtractOfTwoMarks ==
    /\ op = "extract_between_line_content"
    /\ Len(arg.marks) = 2
    /\ arg.marks[1] # arg.marks[2]
    /\ Cardinality(LinePos(src, arg.marks[1])) = 1
    /\ Cardinality(LinePos(src, arg.marks[2])) = 1

PosOf(text, line) == SetMin(LinePos(text, line))

\* The part of C9 about find_lines: one entry for each target that occurs,
\* holding the 1-indexed number of its first occurrence.
FindLinesFirstOccurrence ==
    op = "find_lines" =>
        out.found = {<<t, PosOf(src, t)>> : t \in {u \in arg.to_find : LinePos(src, u) # {}}}

\* C9 as stated: for two distinct markers, each on exactly one line, the
\* result is the lines strictly between the two marker lines.
C9ExtractBetween ==
    /\ FindLinesFirstOccurrence
    /\ ExtractOfTwoMarks =>
          LET lines == SplitLines(src)
              pa == PosOf(src, arg.marks[1])
              pb == PosOf(src, arg.marks[2])
              lo == IF pa < pb THEN pa ELSE pb
              hi == IF pa < pb THEN pb ELSE pa
          IN  /\ out.status = "ok"
              /\ out.text = Join([i \in 1..(hi - lo - 1) |-> lines[lo + i]])

\* C9 amended: when the line of the first marker precedes the line of the
\* second, the result is the lines strictly between them; when it follows,
\* the result is the empty text.
C9ExtractOrdered ==
    /\ FindLinesFirstOccurrence
    /\ ExtractOfTwoMarks =>
          LET lines == SplitLines(src)
              pa == PosOf(src, arg.marks[1])
              pb == PosOf(src, arg.marks[2])
          IN  /\ out.status = "ok"
              /\ pa < pb => out.text = Join([i \in 1..(pb - pa - 1) |-> lines[pa + i]])
              /\ pb < pa => out.text = <<>>

C9Witness ==
    /\ ExtractOfTwoMarks
    /\ PosOf(src, arg.marks[1]) + 2 < PosOf(src, arg.marks[2])
    /\ out.status = "ok"
    /\ Len(SplitLines(out.text)) = 2

(***************************************************************************)
(* Footer templating                                                       *)
(***************************************************************************)
\* Template(footer_template).render(...): jinja2 drops one newline ending
\* the template; the character "S" stands for the source URL gated on
\* include_source_in_footer, every other character is literal.
RECURSIVE RenderChars(_, _)
RenderChars(t, include) ==
    IF t = <<>> THEN <<>>
    ELSE (IF Head(t) = "S" THEN (IF include THEN <<"s">> ELSE <<>>) ELSE <<Head(t)>>)
         \o RenderChars(Tail(t), include)

RenderTemplate(t, include) ==
    RenderChars(IF EndsWith(t, <<NL>>) THEN SubSeq(t, 1, Len(t) - 1) ELSE t, include)

add_footer(md_out, footer_template, include_source_in_footer) ==
    LET lines == SplitNL(md_out)
        text == IF lines[Len(lines)] # <<NL>> THEN md_out \o <<NL>> ELSE md_out
    IN  text \o RenderTemplate(footer_template, include_source_in_footer)

FooterChunks == {<<>>, <<"x">>, <<"y">>}

FooterUnits == {c \o t : c \in FooterChunks, t \in {<<>>, <<NL>>}}

FooterTexts == {Concat(us) : us \in SeqsUpTo(FooterUnits, MaxFooterUnits)}

FooterTemplates == {<<"F">>, <<"F", "S">>, <<"F", NL>>}

InitFooter ==
    /\ md \in FooterTexts
    /\ orig = md
    /\ src = <<>>
    /\ op = "init"
    /\ \E t \in FooterTemplates, inc \in BOOLEAN :
          arg = [NoArg EXCEPT !.template = t, !.include = inc]
    /\ out = NoOutcome
    /\ n = 0
    /\ rs = NoRender

AddFooter ==
    /\ op = "init"
    /\ op' = "add_footer"
    /\ out' = Outcome("ok", add_footer(md, arg.template, arg.include), NoIdx, {})
    /\ src' = md
    /\ md' = add_footer(md, arg.template, arg.include)
    /\ n' = n + 1
    /\ UNCHANGED <<orig, arg, rs>>

NextFooter == AddFooter

SpecFooter == InitFooter /\ [][NextFooter]_vars

\* Number of empty pieces that end the sequence ps.
RECURSIVE TrailingEmpty(_)
TrailingEmpty(ps) ==
    IF ps = <<>> \/ ps[Len(ps)] # <<>> THEN 0
    ELSE 1 + TrailingEmpty(SubSeq(ps, 1, Len(ps) - 1))

\* Number of blank lines that end the text before, counting a footer put
\* right after it as starting a line of its own; -1 when the footer would
\* not start a line.
BlankLinesAtEnd(before) == TrailingEmpty(SplitNL(before)) - 1

\* C10: the footer follows the transformed text after exactly one blank
\* line, whatever newlines end the text, and the text itself is unchanged.
C10OneBlankLine ==
    op = "add_footer" =>
        LET footer == RenderTemplate(arg.template, arg.include)
            before == SubSeq(out.text, 1, Len(out.text) - Len(footer))
        IN  /\ EndsWith(out.text, footer)
            /\ StartsWith(before, src)
            /\ BlankLinesAtEnd(before) = 1

(***************************************************************************)
(* Output merge: str.replace, fenced blocks, output tags                   *)
(***************************************************************************)
\* s.replace(old, new) for a non-empty old: every occurrence found by a
\* left-to-right scan that resumes after each match.
RECURSIVE ReplaceR(_, _, _, _, _)
ReplaceR(s, i, old, new, acc) ==
    IF i > Len(s) THEN acc
    ELSE IF OccursAt(s, old, i) THEN ReplaceR(s, i + Len(old), old, new, acc \o new)
    ELSE ReplaceR(s, i + 1, old, new, Append(acc, s[i]))

\* s.replace(old, new, 1): the first occurrence only.
RECURSIVE ReplaceFirstR(_, _, _, _, _)
ReplaceFirstR(s, i, old, new, acc) ==
    IF i > Len(s) THEN acc
    ELSE IF OccursAt(s, old, i) THEN acc \o new \o Drop(s, i + Len(old) - 1)
    ELSE ReplaceFirstR(s, i + 1, old, new, Append(acc, s[i]))

ReplaceFirst(s, old, new) == ReplaceFirstR(s, 1, old, new, <<>>)

Replace(s, old, new) == ReplaceR(s, 1, old, new, <<>>)

\* "```{}\n{}```".format(block['info'], block['text'])
FenceLiteral(b) == Fence \o b.info \o <<NL>> \o b.text \o Fence

\* info.split(' ')[0]
RECURSIVE FirstToken(_)
FirstToken(info) ==
    IF info = <<>> \/ Head(info) = " " THEN <<>>
    ELSE <<Head(info)>> \o FirstToken(Tail(info))

\* The fenced blocks of a text as the document parser finds them: a line
\* starting with the fence opens a block, the rest of the line is its info;
\* the next line starting with the fence closes it; the lines between, each
\* with its newline, are its text.
RECURSIVE FencedBlocksR(_, _, _, _, _, _)
FencedBlocksR(lines, i, open, info, text, acc) ==
    IF i > Len(lines)
    THEN (IF open THEN Append(acc, [info |-> info, text |-> text]) ELSE acc)
    ELSE IF ~open
         THEN (IF StartsWith(lines[i], Fence)
               THEN FencedBlocksR(lines, i + 1, TRUE, Drop(lines[i], 3), <<>>, acc)
               ELSE FencedBlocksR(lines, i + 1, FALSE, <<>>, <<>>, acc))
    ELSE IF StartsWith(lines[i], Fence)
         THEN FencedBlocksR(lines, i + 1, FALSE, <<>>, <<>>,
                            Append(acc, [info |-> info, text |-> text]))
    ELSE FencedBlocksR(lines, i + 1, TRUE, info, text \o lines[i] \o <<NL>>, acc)

FencedBlocks(text) == FencedBlocksR(SplitLines(text), 1, FALSE, <<>>, <<>>, <<>>)

\* util.add_output_tags(content, out): the output of the k-th block, when
\* not empty, becomes a line after the line closing the k-th fenced block.
RECURSIVE AddOutputTagsR(_, _, _, _, _, _)
AddOutputTagsR(lines, i, open, k, outs, acc) ==
    IF i > Len(lines) THEN acc
    ELSE IF ~open
         THEN AddOutputTagsR(lines, i + 1, StartsWith(lines[i], Fence), k, outs,
                             Append(acc, lines[i]))
    ELSE IF StartsWith(lines[i], Fence)
         THEN AddOutputTagsR(lines, i + 1, FALSE, k + 1, outs,
                             IF k <= Len(outs) /\ outs[k] # <<>>
                             THEN Append(Append(acc, lines[i]), outs[k])
                             ELSE Append(acc, lines[i]))
    ELSE AddOutputTagsR(lines, i + 1, TRUE, k, outs, Append(acc, lines[i]))

add_output_tags(content, outs) ==
    Join(AddOutputTagsR(SplitLines(content), 1, FALSE, 1, outs, <<>>))

\* One pass of the loop at md.py:299: the hide substitution of block b.
HideBlock(text, b) == IF b.hide THEN Replace(text, FenceLiteral(b), <<>>) ELSE text

\* One pass of the loop at md.py:305: the info substitution of block b.
TrimInfo(text, b) == IF b.info # <<>> THEN Replace(text, b.info, FirstToken(b.info)) ELSE text

(***************************************************************************)
(* MarkdownRenderer.render                                                 *)
(***************************************************************************)
Infos == {<<>>, <<"a">>, <<"a", " ", "b">>}

FencedPart(info) == Fence \o info \o <<NL, "x", NL>> \o Fence \o <<NL>>

BodyParts == {FencedPart(info) : info \in Infos} \cup {<<"x", NL>>}

Bodies == {Concat(ps) : ps \in SeqsUpTo(BodyParts, MaxParts)}

RenderDocs ==
    {FrontMatterBlock \o <<NL>> \o body : body \in Bodies}
        \cup {<<"x", NL>>, Marker \o <<NL, "t", NL>> \o Marker \o <<NL, "x", NL>>,
              Marker \o <<NL, "x", NL>>}

WithPcs == {"executor", "add_output_tags", "hide", "info", "exit"}

\* An exception raised by step: inside the with block of run_snippets the
\* context manager exits before the exception leaves render.
RaiseNoExit(r, step) == [r EXCEPT !.pc = "failed", !.failed_at = step]

Raise(r, step) ==
    [r EXCEPT !.pc = "failed", !.failed_at = step,
              !.exited = IF r.pc \in WithPcs THEN r.exited + 1 ELSE r.exited]

Ran(r, step) == [r EXCEPT !.ran = Append(r.ran, step)]

InitRender ==
    /\ orig = <<>>
    /\ md = <<>>
    /\ src = <<>>
    /\ op = "render"
    /\ arg = NoArg
    /\ out = NoOutcome
    /\ n = 0
    /\ \E raw \in RenderDocs, is_md \in BOOLEAN, ae \in BOOLEAN, ec \in BOOLEAN,
          foot \in {<<FALSE, FALSE>>, <<TRUE, FALSE>>, <<TRUE, TRUE>>} :
          rs = [pc |-> "load", file |-> raw, is_md |-> is_md,
                allow_expand |-> ae, execute_code |-> ec,
                footer_template |-> IF foot[1] THEN <<"F", "S">> ELSE <<>>,
                include |-> foot[2],
                md_raw |-> <<>>, checked |-> <<>>, keys |-> {}, content |-> <<>>,
                md_out |-> <<>>, before |-> <<>>, blocks |-> <<>>, k |-> 0,
                entered |-> 0, exited |-> 0, ran |-> <<>>, failed_at |-> "none",
                returned |-> FALSE, result |-> <<>>]

\* md.py:179-184: read the file, convert it when it is not markdown.
Load ==
    /\ rs.pc = "load"
    /\ \/ rs' = [Ran(rs, "load") EXCEPT !.pc = "check_headers", !.md_raw = rs.file]
       \/ /\ ~rs.is_md
          /\ rs' = Raise(Ran(rs, "load"), "load")
    /\ UNCHANGED <<orig, md, src, op, arg, out, n>>

\* CheckHeaders with the failure of the header checker ignored.
CheckHeadersIgnored ==
    /\ rs.pc = "check_headers"
    /\ \/ rs' = [Ran(rs, "check_headers") EXCEPT !.pc = "parse_metadata",
                                                 !.checked = rs.md_raw]
       \/ rs' = [Ran(rs, "check_headers") EXCEPT !.pc = "parse_metadata",
                                                 !.checked = rs.md_raw,
                                                 !.failed_at = "check_headers"]
    /\ UNCHANGED <<orig, md, src, op, arg, out, n>>

\* md.py:186: medium.check_headers(md_raw)
CheckHeaders ==
    /\ rs.pc = "check_headers"
    /\ \/ rs' = [Ran(rs, "check_headers") EXCEPT !.pc = "parse_metadata",
                                                 !.checked = rs.md_raw]
       \/ rs' = Raise([Ran(rs, "check_headers") EXCEPT !.checked = rs.md_raw],
                      "check_headers")
    /\ UNCHANGED <<orig, md, src, op, arg, out, n>>

\* md.py:188-190: parse the document and its front matter.
RenderParseMetadata ==
    /\ rs.pc = "parse_metadata"
    /\ LET parsed == parse_metadata(rs.md_raw, TRUE)
       IN  rs' = IF parsed.status = "ok"
                 THEN [Ran(rs, "parse_metadata") EXCEPT !.pc = "front_matter",
                                                        !.keys = parsed.keys]
                 ELSE Raise(Ran(rs, "parse_metadata"), "parse_metadata")
    /\ UNCHANGED <<orig, md, src, op, arg, out, n>>

\* md.py:192: models.FrontMatter(**metadata), which validates the mapping.
BuildFrontMatter ==
    /\ rs.pc = "front_matter"
    /\ \/ rs' = [Ran(rs, "front_matter") EXCEPT !.pc = "expand"]
       \/ rs' = Raise(Ran(rs, "front_matter"), "front_matter")
    /\ UNCHANGED <<orig, md, src, op, arg, out, n>>

\* md.py:205-212: expand the text when front matter allows it.
Expand ==
    /\ rs.pc = "expand"
    /\ \/ /\ rs.allow_expand
          /\ \E tail \in {<<>>, <<"x", NL>>} :
                rs' = [Ran(rs, "expand") EXCEPT !.pc = "execute",
                                                !.content = rs.md_raw \o tail]
       \/ /\ rs.allow_expand
          /\ rs' = Raise(Ran(rs, "expand"), "expand")
       \/ /\ ~rs.allow_expand
          /\ rs' = [rs EXCEPT !.pc = "execute", !.content = rs.md_raw]
    /\ UNCHANGED <<orig, md, src, op, arg, out, n>>

\* md.py:217-222 and the with statement at md.py:286: either the text is
\* passed through, or the executor is built and entered.
ExecuteOrPass ==
    /\ rs.pc = "execute"
    /\ \/ /\ ~rs.execute_code
          /\ rs' = [rs EXCEPT !.pc = "finalize", !.md_out = rs.content]
       \/ /\ rs.execute_code
          /\ rs' = [Ran(rs, "execute") EXCEPT !.pc = "executor",
                                              !.entered = rs.entered + 1]
       \/ /\ rs.execute_code
          /\ rs' = Raise(Ran(rs, "execute"), "execute")
    /\ UNCHANGED <<orig, md, src, op, arg, out, n>>

\* md.py:291: blocks = executor(md_ast), one block for each fenced block of
\* the content, with the output and the hide flag the executor gives it.
Executor ==
    /\ rs.pc = "executor"
    /\ \/ LET found == FencedBlocks(rs.content)
          IN  \E hides \in [1..Len(found) -> BOOLEAN], output \in {<<>>, <<"o">>} :
                rs' = [Ran(rs, "executor") EXCEPT !.pc = "add_output_tags",
                                 !.blocks = [i \in 1..Len(found) |->
                                               [info |-> found[i].info,
                                                text |-> found[i].text,
                                                output |-> output,
                                                hide |-> hides[i]]]]
       \/ rs' = Raise(Ran(rs, "executor"), "executor")
    /\ UNCHANGED <<orig, md, src, op, arg, out, n>>

\* md.py:294-295
AddOutputTags ==
    /\ rs.pc = "add_output_tags"
    /\ \/ rs' = [Ran(rs, "add_output_tags") EXCEPT !.pc = "hide", !.k = 0,
                           !.md_out = add_output_tags(rs.content,
                               [i \in 1..Len(rs.blocks) |-> rs.blocks[i].output])]
       \/ rs' = Raise(Ran(rs, "add_output_tags"), "add_output_tags")
    /\ UNCHANGED <<orig, md, src, op, arg, out, n>>

\* md.py:299-303, one pass of the loop.  For a block flagged hide the
\* lookups block['info'] and block['text'] raise when the executor has left
\* the key out.
Hide ==
    /\ rs.pc = "hide"
    /\ \/ /\ rs.k < Len(rs.blocks)
          /\ rs' = [rs EXCEPT !.k = rs.k + 1, !.before = rs.md_out,
                              !.md_out = HideBlock(rs.md_out, rs.blocks[rs.k + 1])]
       \/ /\ rs.k < Len(rs.blocks)
          /\ rs.blocks[rs.k + 1].hide
          /\ rs' = Raise(Ran(rs, "hide"), "hide")
       \/ /\ rs.k >= Len(rs.blocks)
          /\ rs' = [rs EXCEPT !.pc = "info", !.k = 0]
    /\ UNCHANGED <<orig, md, src, op, arg, out, n>>

\* md.py:305-308, one pass of the loop.  For a block with an info the calls
\* of replace and split raise when the info is not a string.
Info ==
    /\ rs.pc = "info"
    /\ \/ /\ rs.k < Len(rs.blocks)
          /\ rs' = [rs EXCEPT !.k = rs.k + 1, !.before = rs.md_out,
                              !.md_out = TrimInfo(rs.md_out, rs.blocks[rs.k + 1])]
       \/ /\ rs.k < Len(rs.blocks)
          /\ rs.blocks[rs.k + 1].info # <<>>
          /\ rs' = Raise(Ran(rs, "info"), "info")
       \/ /\ rs.k >= Len(rs.blocks)
          /\ rs' = [rs EXCEPT !.pc = "exit", !.k = 0]
    /\ UNCHANGED <<orig, md, src, op, arg, out, n>>

\* The end of the with block, md.py:310.
ExitExecutor ==
    /\ rs.pc = "exit"
    /\ rs' = [rs EXCEPT !.pc = "finalize", !.exited = rs.exited + 1]
    /\ UNCHANGED <<orig, md, src, op, arg, out, n>>

\* md.py:224-227
FinalizeMetadata ==
    /\ rs.pc = "finalize"
    /\ rs' = [rs EXCEPT !.pc = "footer",
                        !.keys = rs.keys \cup {"date", "authors", "toc"}]
    /\ UNCHANGED <<orig, md, src, op, arg, out, n>>

\* md.py:229-232
Footer ==
    /\ rs.pc = "footer"
    /\ rs' = IF rs.footer_template # <<>>
             THEN [Ran(rs, "footer") EXCEPT
                      !.pc = "images", !.before = rs.md_out,
                      !.md_out = add_footer(rs.md_out, rs.footer_template, rs.include)]
             ELSE [rs EXCEPT !.pc = "images"]
    /\ UNCHANGED <<orig, md, src, op, arg, out, n>>

\* md.py:234-249: the image links are rewritten (the texts of the model hold
\* none) and the first image, when one is found, is added to the metadata.
Images ==
    /\ rs.pc = "images"
    /\ \/ rs' = [Ran(rs, "images") EXCEPT !.pc = "replace_metadata"]
       \/ rs' = Raise(Ran(rs, "images"), "images")
    /\ UNCHANGED <<orig, md, src, op, arg, out, n>>

\* md.py:253
RenderReplaceMetadata ==
    /\ rs.pc = "replace_metadata"
    /\ LET replaced == replace_metadata(rs.md_out, rs.keys)
       IN  rs' = IF replaced.status = "ok"
                 THEN [Ran(rs, "replace_metadata") EXCEPT !.pc = "return",
                                                          !.md_out = replaced.text]
                 ELSE Raise(Ran(rs, "replace_metadata"), "replace_metadata")
    /\ UNCHANGED <<orig, md, src, op, arg, out, n>>

\* md.py:256
Return ==
    /\ rs.pc = "return"
    /\ rs' = [rs EXCEPT !.pc = "done", !.returned = TRUE, !.result = rs.md_out]
    /\ UNCHANGED <<orig, md, src, op, arg, out, n>>

NextRender ==
    \/ Load
    \/ CheckHeaders
    \/ RenderParseMetadata
    \/ BuildFrontMatter
    \/ Expand
    \/ ExecuteOrPass
    \/ Executor
    \/ AddOutputTags
    \/ Hide
    \/ Info
    \/ ExitExecutor
    \/ FinalizeMetadata
    \/ Footer
    \/ Images
    \/ RenderReplaceMetadata
    \/ Return

SpecRender == InitRender /\ [][NextRender]_vars

(***************************************************************************)
(* Properties of the codec                                                 *)
(***************************************************************************)
\* 1-indexed numbers of the lines of text that equal the marker.
MarkerPos(text) ==
    LET lines == SplitLines(text) IN {i \in 1..Len(lines) : lines[i] = Marker}

\* Line 1 is a marker and a later line is one too.
TopBlock(text) == 1 \in MarkerPos(text) /\ Cardinality(MarkerPos(text)) >= 2

\* Two markers at least, with content lines before the first one.
LeadingContent(text) == Cardinality(MarkerPos(text)) >= 2 /\ 1 \notin MarkerPos(text)

\* Number of the characters of s up to and including its first line break.
RECURSIVE BreakEnd(_, _)
BreakEnd(s, i) ==
    IF i > Len(s) THEN Len(s)
    ELSE IF s[i] = NL THEN i
    ELSE IF s[i] = CR THEN (IF i < Len(s) /\ s[i + 1] = NL THEN i + 1 ELSE i)
    ELSE BreakEnd(s, i + 1)

\* s without its first k lines and their line breaks, character by character.
RECURSIVE DropLines(_, _)
DropLines(s, k) == IF k = 0 THEN s ELSE DropLines(Drop(s, BreakEnd(s, 1)), k - 1)

\* The characters of text after its second marker line.
BodyAfterBlock(text) == DropLines(text, SetMin(MarkerPos(text) \ {SetMin(MarkerPos(text))}))

RoundTripDone == op = "replace_metadata" /\ arg.roundtrip /\ out.status = "ok"

\* C1 as stated: after parse then replace with the same metadata, the content
\* after the new metadata block is character for character the content of
\* the document after its original closing marker.
C1RoundTripExact ==
    RoundTripDone =>
        /\ StartsWith(out.text, new_metadata_text(arg.keys))
        /\ Drop(out.text, Len(new_metadata_text(arg.keys))) = BodyAfterBlock(src)

\* C1 amended: the content after the new metadata block is the lines of the
\* content after the original closing marker joined with newlines, so every
\* line break is a newline and the break ending the last line is dropped.
C1RoundTripLines ==
    RoundTripDone =>
        /\ StartsWith(out.text, new_metadata_text(arg.keys))
        /\ Drop(out.text, Len(new_metadata_text(arg.keys)))
               = Join(SplitLines(BodyAfterBlock(src)))

C1Witness ==
    /\ RoundTripDone
    /\ Len(BodyAfterBlock(src)) >= 2
    /\ EndsWith(BodyAfterBlock(src), <<NL>>)
    /\ Drop(out.text, Len(new_metadata_text(arg.keys))) # <<>>

\* C2 as stated: a second delete_metadata returns the once-stripped text
\* unchanged, and delete_metadata never raises.
C2Idempotent ==
    (op = "delete_metadata" /\ n = 2) => (out.status = "ok" /\ md = src)

\* C2 amended: delete_metadata never raises; it returns unchanged any text
\* that does not begin with a front-matter block (line 0 a marker and a
\* later marker line), so a second delete changes nothing unless the first
\* result begins with such a block, and then it removes that block too.
C2DeleteStripped ==
    op = "delete_metadata" =>
        /\ out.status = "ok"
        /\ md = out.text
        /\ ~TopBlock(src) => md = src
        /\ TopBlock(src) => md = Join(SplitLines(BodyAfterBlock(src)))

C2Witness ==
    /\ op = "delete_metadata"
    /\ n = 2
    /\ TopBlock(orig)
    /\ EndsWith(orig, <<NL>>)
    /\ ~TopBlock(src)
    /\ src # <<>>
    /\ md = src

\* C3: find_metadata_lines fails with ValueError (missing front matter)
\* exactly when no line is a marker, with InvalidFrontMatter exactly when
\* some line is a marker and the first one is not line 0 or there is no
\* second one, and otherwise returns (0, j), j the 0-indexed number of the
\* second marker line, whatever marker lines follow.
C3Classification ==
    op = "find_metadata_lines" =>
        LET P == MarkerPos(src)
        IN  /\ out.status \in {"ValueError", "InvalidFrontMatter", "ok"}
            /\ out.status = "ValueError" <=> P = {}
            /\ out.status = "InvalidFrontMatter"
                   <=> (P # {} /\ (1 \notin P \/ Cardinality(P) < 2))
            /\ out.status = "ok" => out.idx = <<0, SetMin(P \ {1}) - 1>>
            /\ out.status # "ok" => out.idx = <<>>

C3Witness ==
    /\ op = "find_metadata_lines"
    /\ out.status = "ok"
    /\ Cardinality(MarkerPos(src)) >= 3
    /\ out.idx[2] >= 2

\* C4 as stated: with content lines before the first of two markers,
\* replace_metadata succeeds and returns the new block followed by the lines
\* after the second marker.
C4DiscardsLeading ==
    (op = "replace_metadata" /\ LeadingContent(src)) =>
        /\ out.status = "ok"
        /\ out.text = new_metadata_text(arg.keys) \o Join(SplitLines(BodyAfterBlock(src)))

\* C4 amended: with content lines before the first of two markers,
\* replace_metadata fails with InvalidFrontMatter (metadata not located at
\* the top) and returns no text.
C4RejectsLeading ==
    (op = "replace_metadata" /\ LeadingContent(src)) =>
        /\ out.status = "InvalidFrontMatter"
        /\ out.text = <<>>
        /\ md = src

C4Witness ==
    /\ op = "replace_metadata"
    /\ LeadingContent(src)
    /\ BodyAfterBlock(src) # <<>>
    /\ out.status # "none"

(***************************************************************************)
(* Properties of render                                                    *)
(***************************************************************************)
Rendering == rs.pc # "off"

\* Start positions of the occurrences of old that a left-to-right scan of s
\* finds, the scan resuming after each one.
RECURSIVE MatchesR(_, _, _)
MatchesR(s, i, old) ==
    IF i > Len(s) THEN {}
    ELSE IF OccursAt(s, old, i) THEN {i} \cup MatchesR(s, i + Len(old), old)
    ELSE MatchesR(s, i + 1, old)

Matches(s, old) == MatchesR(s, 1, old)

\* For each match, the number of characters of s kept in front of it once
\* all matches are deleted.
Cuts(s, old) ==
    {m - 1 - Cardinality({q \in Matches(s, old) : q < m}) * Len(old) : m \in Matches(s, old)}

\* Every occurrence of p in t has one of the cuts strictly inside it.
AllStraddle(t, p, cuts) ==
    \A i \in 1..Len(t) :
        OccursAt(t, p, i) => \E c \in cuts : i - 1 < c /\ c < i - 1 + Len(p)

\* C5 as stated: the text run_snippets returns holds no occurrence of the
\* literal fenced text of any block flagged hide.
C5HiddenAbsent ==
    (Rendering /\ rs.pc = "finalize" /\ rs.entered = 1) =>
        \A k \in 1..Len(rs.blocks) :
            rs.blocks[k].hide => ~Contains(rs.md_out, FenceLiteral(rs.blocks[k]))

HideDone == Rendering /\ rs.pc = "hide" /\ rs.k >= 1 /\ rs.blocks[rs.k].hide

\* C5 amended: the hide substitution of a block deletes every occurrence of
\* its literal fenced text that a left-to-right scan finds, not the first
\* only; right after it the text holds the literal only where the two sides
\* of a deleted occurrence have joined into it.  Later substitutions may
\* form the literal again.
C5HideDeletesAll ==
    HideDone =>
        LET lit == FenceLiteral(rs.blocks[rs.k])
        IN  /\ Len(rs.md_out)
                  = Len(rs.before) - Cardinality(Matches(rs.before, lit)) * Len(lit)
            /\ AllStraddle(rs.md_out, lit, Cuts(rs.before, lit))

C5Witness ==
    /\ HideDone
    /\ Cardinality(Matches(rs.before, FenceLiteral(rs.blocks[rs.k]))) >= 2
    /\ ~Contains(rs.md_out, FenceLiteral(rs.blocks[rs.k]))

\* C6: the executor is entered once when execute_code is true and never
\* when it is false, the text then passing through unchanged; once entered
\* it is exited before render returns or fails, whatever raises.
C6ExecutorScoped ==
    Rendering =>
        /\ rs.entered <= 1
        /\ rs.exited <= rs.entered
        /\ ~rs.execute_code => rs.entered = 0
        /\ (rs.pc = "finalize" /\ ~rs.execute_code) => rs.md_out = rs.content
        /\ (rs.pc \in {"finalize", "footer", "images", "replace_metadata", "return", "done"}
               /\ rs.execute_code) => rs.entered = 1
        /\ rs.pc \in WithPcs => (rs.entered = 1 /\ rs.exited = 0)
        /\ rs.pc \notin WithPcs => rs.exited = rs.entered

C6Witness ==
    /\ Rendering
    /\ rs.pc = "failed"
    /\ rs.failed_at = "hide"
    /\ rs.k >= 1
    /\ rs.entered = 1
    /\ rs.exited = 1

PipelineOrder ==
    <<"load", "check_headers", "parse_metadata", "front_matter", "expand", "execute",
      "executor", "add_output_tags", "hide", "info", "footer", "images",
      "replace_metadata">>

StepNo(step) == CHOOSE i \in 1..Len(PipelineOrder) : PipelineOrder[i] = step

\* C7: the header checker runs on the raw text before every later step; a
\* failure of the header checker, of the front-matter parse or validation,
\* of the expander or of the executor is the last step of the call and no
\* result is returned; a result is returned only once replace_metadata has
\* replaced the front-matter block with the finalized metadata.
C7AbortOrdering ==
    Rendering =>
        /\ \A i \in 1..Len(rs.ran) : \A j \in 1..Len(rs.ran) :
              i < j => StepNo(rs.ran[i]) < StepNo(rs.ran[j])
        /\ \A i \in 1..Len(rs.ran) :
              StepNo(rs.ran[i]) > StepNo("check_headers")
                  => (i > 1 /\ \E j \in 1..(i - 1) : rs.ran[j] = "check_headers")
        /\ (\E i \in 1..Len(rs.ran) : rs.ran[i] = "check_headers")
              => rs.checked = rs.file
        /\ rs.failed_at # "none" =>
              /\ rs.pc = "failed"
              /\ rs.ran[Len(rs.ran)] = rs.failed_at
              /\ ~rs.returned
              /\ rs.result = <<>>
        /\ rs.returned =>
              /\ rs.pc = "done"
              /\ rs.failed_at = "none"
              /\ rs.ran[Len(rs.ran)] = "replace_metadata"
              /\ {"date", "authors", "toc"} \subseteq rs.keys
              /\ StartsWith(rs.result, new_metadata_text(rs.keys))
        /\ ~rs.returned => rs.result = <<>>

C7Witness ==
    /\ Rendering
    /\ rs.pc = "failed"
    /\ rs.failed_at = "executor"
    /\ \E i \in 1..Len(rs.ran) : rs.ran[i] = "expand"
    /\ ~rs.returned

====
